---- MODULE Spec2Model ----
(***************************************************************************)
(* A model of blockchain.py: the Blockchain class (chain, pending          *)
(* transaction pool, peer set), its block construction, hashing, proof of  *)
(* work check, chain validation and conflict resolution.                   *)
(*                                                                         *)
(* Python values whose type matters are tagged tuples:                     *)
(*   <<"None">>, <<"int", n>>, <<"str", s>>, and <<"sha256", bytes>> for   *)
(* the hex digest (a str) of the byte string `bytes`.  SHA-256 is taken to *)
(* be collision free: a digest is represented by the bytes it digests.     *)
(***************************************************************************)
EXTENDS Integers, Sequences, FiniteSets, TLC

\* ------------------------------------------------------------------ bounds
\* new_block is called at most MaxBlocks times after construction.
MaxBlocks == 2
\* new_transaction stops once the pending pool holds MaxPool transactions.
MaxPool == 2
\* Iterations of valid_chain's while loop that are followed before the call
\* is reported as still running.
MaxIter == 4
\* proof_of_work is followed while the proof it tries is at most MaxProof.
MaxProof == 35300

\* ------------------------------------------------------------ Python values
None == <<"None">>
PyInt(n) == <<"int", n>>
PyStr(s) == <<"str", s>>

\* Python truthiness of a tagged value (None, 0 and "" are falsy).
Truthy(v) == v # None /\ v # PyInt(0) /\ v # PyStr("")

\* ------------------------------------------------------------------ inputs
\* The transactions callers submit: (A,B,5) and (C,D,10).
Transactions ==
    { [sender |-> "A", recipient |-> "B", amount |-> 5],
      [sender |-> "C", recipient |-> "D", amount |-> 10] }

\* The proof of the genesis block.
GenesisProof == 100
\* The previous_hash of the genesis block: the int 1.
GenesisPreviousHash == PyInt(1)

\* proof_of_work(100) and proof_of_work(35293), and a proof valid after
\* neither.
Proof2 == 35293
Proof3 == 35089
BadProof == 0
\* A second proof with valid_proof(100, p): the next after 35293.
Proof2Alt == 88145

\* The proofs new_block is called with.
Proofs == {Proof2, Proof3, BadProof}

\* The previous_hash arguments new_block is called with (None: omitted).
PreviousHashArgs == {None, PyInt(1)}

\* ----------------------------------------------------------------- hashing
\* json.dumps(..., sort_keys=True): the keys of a dict in sorted order.
BlockKeyOrder == <<"index", "previous_hash", "proof", "timestamp", "transactions">>
TransactionKeyOrder == <<"amount", "recipient", "sender">>

\* The <<key, value>> pairs of dict d, keys taken in the order `order`,
\* skipping keys d does not hold.
RECURSIVE DumpsFrom(_, _, _)
DumpsFrom(d, order, i) ==
    IF i > Len(order) THEN << >>
    ELSE IF order[i] \in DOMAIN d
         THEN << <<order[i], d[order[i]]>> >> \o DumpsFrom(d, order, i + 1)
         ELSE DumpsFrom(d, order, i + 1)

DumpsTransactions(txs) ==
    [i \in 1..Len(txs) |-> DumpsFrom(txs[i], TransactionKeyOrder, 1)]

\* json.dumps(block, sort_keys=True).encode()
DumpsBlock(block) ==
    LET b == IF "transactions" \in DOMAIN block
             THEN [block EXCEPT !["transactions"] = DumpsTransactions(@)]
             ELSE block
    IN  DumpsFrom(b, BlockKeyOrder, 1)

\* Blockchain.hash
Hash(block) == <<"sha256", DumpsBlock(block)>>

\* ----------------------------------------------------------- proof of work
\* str(n) for n >= 0, as a sequence of decimal digits.
RECURSIVE ToDecimal(_)
ToDecimal(n) ==
    IF n < 10 THEN <<n>> ELSE ToDecimal(n \div 10) \o <<n % 10>>

\* The guesses f'{last_proof}{proof}' whose SHA-256 hex digest starts "0000":
\* all of them over last_proof and proof in {0, 100, 35293, 35089, 88145},
\* and over last_proof in {100, 35293, 3317, 7534} and proof in 0..35310.
ZeroPrefixGuesses ==
    { ToDecimal(100) \o ToDecimal(35293),
      ToDecimal(100) \o ToDecimal(88145),
      ToDecimal(35293) \o ToDecimal(35089),
      ToDecimal(3317) \o ToDecimal(33),
      ToDecimal(3317) \o ToDecimal(920),
      ToDecimal(7534) \o ToDecimal(204),
      ToDecimal(7534) \o ToDecimal(388) }

\* Blockchain.valid_proof
valid_proof(last_proof, proof) ==
    LET guess == ToDecimal(last_proof) \o ToDecimal(proof)
    IN  guess \in ZeroPrefixGuesses

\* proof_of_work's step to the next proof with two added, not one.
PowNextSkip(proof) == proof + 2

\* proof_of_work: proof += 1
PowNext(proof) == proof + 1

\* The previous proofs proof_of_work is called with.
PowInputs == {GenesisProof, Proof2, 3317, 7534}

\* ------------------------------------------------------------------- state
VARIABLES
    chain,                 \* self.chain
    current_transactions,  \* self.current_transactions
    nodes,                 \* self.nodes
    ret,                   \* the last call: its name, how it ended, its result
    registered,            \* per pending transaction: what new_transaction
                           \* was given and what it returned
    mined,                 \* number of new_block calls made since __init__;
                           \* also the clock time() reads, which ticks on
                           \* each reading
    honest,                \* every new_block call since __init__ was given a
                           \* proof valid after the last block's and no
                           \* previous_hash
    shared,                \* positions of the blocks of self.chain whose
                           \* 'transactions' is the very list object
                           \* self.current_transactions is bound to
    submitted,             \* every transaction new_transaction was given
                           \* since __init__, in call order
    pc,                    \* per thread: where it is in the call it makes
    loc                    \* per thread: the local values of that call

\* The threads' state: the calls made one after the other leave it alone.
threads == <<pc, loc>>

vars == <<chain, current_transactions, nodes, ret, registered, mined, honest,
          shared, submitted, threads>>

\* The dict new_block builds.
MakeBlock(ch, txs, now, proof, previous_hash) ==
    [ index         |-> Len(ch) + 1,
      timestamp     |-> now,
      transactions  |-> txs,
      proof         |-> proof,
      previous_hash |-> IF Truthy(previous_hash) THEN previous_hash
                        ELSE Hash(ch[Len(ch)]) ]

\* The genesis block __init__ mints: new_block(proof=100, previous_hash=1).
GenesisBlock(now) == MakeBlock(<< >>, << >>, now, GenesisProof, GenesisPreviousHash)

\* Blockchain.last_block
last_block(ch) == ch[Len(ch)]

\* NewTransactionResult without the + 1.
NewTransactionResultLast(ch) == last_block(ch).index

\* What new_transaction returns.
NewTransactionResult(ch) == last_block(ch).index + 1

\* A call that returned `val`.
Returned(op, val) == [op |-> op, kind |-> "returned", val |-> val]

\* The threads that call into one Blockchain, and the frame of a thread that
\* is in no call.
Threads == {1, 2}
NoLocals == [op |-> "none"]

\* PoolAfterMint without the reset of the pool: the attribute stays bound to
\* the list the block was given.
PoolAfterMintKept(txs) == [list |-> txs, fresh |-> FALSE]

\* self.current_transactions after new_block: bound to a new empty list, an
\* object no block holds.
PoolAfterMint(txs) == [list |-> << >>, fresh |-> TRUE]

\* The positions of the blocks that hold the list self.current_transactions
\* is bound to, after new_block put that list in the block at position pos
\* and bound the attribute to `pool`.
SharedAfterMint(sh, pos, pool) ==
    IF pool.fresh THEN {} ELSE sh \cup {pos}

\* Blockchain.__init__: the genesis block is given the list of line 12, and
\* new_block rebinds the pool.
Init ==
    /\ chain = <<GenesisBlock(0)>>
    /\ current_transactions = PoolAfterMint(<< >>).list
    /\ nodes = {}
    /\ ret = Returned("__init__", None)
    /\ registered = << >>
    /\ mined = 0
    /\ honest = TRUE
    /\ shared = SharedAfterMint({}, 1, PoolAfterMint(<< >>))
    /\ submitted = << >>
    /\ pc = [t \in Threads |-> "idle"]
    /\ loc = [t \in Threads |-> NoLocals]

\* No call is still running: the caller is free to make the next call.
Idle == ret.kind # "running"

\* list.append(tx) on the list self.current_transactions is bound to, as the
\* blocks see it whose 'transactions' is that same list.
AppendToShared(ch, sh, tx) ==
    [i \in 1..Len(ch) |->
        IF i \in sh THEN [ch[i] EXCEPT !.transactions = Append(@, tx)] ELSE ch[i]]

\* Blockchain.new_transaction
NewTransaction ==
    /\ Idle
    /\ Len(current_transactions) < MaxPool
    /\ \E t \in Transactions :
          LET result == NewTransactionResult(chain)
          IN  /\ current_transactions' = Append(current_transactions, t)
              /\ chain' = AppendToShared(chain, shared, t)
              /\ ret' = Returned("new_transaction", result)
              /\ registered' = Append(registered, [tx |-> t, result |-> result])
              /\ submitted' = Append(submitted, t)
    /\ UNCHANGED <<nodes, mined, honest, shared, threads>>

\* A new_block call with previous_hash drawn from `args`.
NewBlockWith(args) ==
    /\ Idle
    /\ mined < MaxBlocks
    /\ \E proof \in Proofs, previous_hash \in args :
          LET block == MakeBlock(chain, current_transactions, mined + 1, proof,
                                 previous_hash)
              pool  == PoolAfterMint(current_transactions)
          IN  /\ current_transactions' = pool.list
              /\ shared' = SharedAfterMint(shared, Len(chain) + 1, pool)
              /\ chain' = Append(chain, block)
              /\ ret' = [ op |-> "new_block", kind |-> "returned", val |-> block,
                          proof |-> proof, previous_hash |-> previous_hash,
                          before |-> chain, registered |-> registered,
                          after |-> ret.op ]
              /\ honest' = (/\ honest
                            /\ previous_hash = None
                            /\ valid_proof(last_block(chain).proof, proof))
    /\ registered' = << >>
    /\ mined' = mined + 1
    /\ UNCHANGED <<nodes, submitted, threads>>

\* Blockchain.new_block
NewBlock == NewBlockWith(PreviousHashArgs)

\* The previous_hash arguments of every kind: omitted, an int, the int 0, a
\* str and the empty str.
SuppliedPreviousHashArgs == {None, PyInt(1), PyInt(0), PyStr("abc"), PyStr("")}

\* new_block given any of them.
NewBlockSupplied == NewBlockWith(SuppliedPreviousHashArgs)

\* urlparse(address).netloc, for an address scheme://host[path].
Hosts == {"n1", "n2"}
Addresses == [host : Hosts, path : {"", "/chain"}]
Netloc(address) == address.host

\* Blockchain.register_node
RegisterNode ==
    /\ Idle
    /\ \E address \in Addresses :
          /\ nodes' = nodes \cup {Netloc(address)}
          /\ ret' = Returned("register_node", None)
    /\ UNCHANGED <<chain, current_transactions, registered, mined, honest, shared,
                   submitted, threads>>

\* --------------------------------------------------------- chain validation
\* One pass through the body of valid_chain's while loop, for the pair
\* (last_block, chain[current_index]): "False" and "KeyError" leave the call,
\* "next" goes back to the loop test.  (Lists are 1-based here: the code's
\* current_index 1 is position 2.)
ValidChainBody(ch, last, current_index) ==
    LET block == ch[current_index]
    IN  IF "previous_hash" \notin DOMAIN block THEN "KeyError"
        ELSE IF block.previous_hash # Hash(last) THEN "False"
        ELSE IF "proof" \notin DOMAIN last \/ "proof" \notin DOMAIN block THEN "KeyError"
        ELSE IF ~valid_proof(last.proof, block.proof) THEN "False"
        ELSE "next"

\* valid_chain's while loop after `examined` passes through its body.  The
\* body assigns neither last_block nor current_index, so the next pass runs
\* on the same pair; leaving the loop by its test falls off the end of the
\* function, which returns None.  A call still in the loop after MaxIter
\* passes is reported as "running".
RECURSIVE ValidChainLoop(_, _, _, _)
ValidChainLoop(ch, last, current_index, examined) ==
    IF ~(current_index <= Len(ch))
    THEN [result |-> "None", examined |-> examined]
    ELSE IF examined = MaxIter
    THEN [result |-> "running", examined |-> examined]
    ELSE LET step == ValidChainBody(ch, last, current_index)
         IN  IF step = "next"
             THEN ValidChainLoop(ch, last, current_index, examined + 1)
             ELSE [result |-> step, examined |-> examined + 1]

\* Blockchain.valid_chain: how the call ends ("True", "False", "None", an
\* exception's name, or "running") and the passes through the loop body.
valid_chain(ch) ==
    IF Len(ch) = 0
    THEN [result |-> "IndexError", examined |-> 0]
    ELSE ValidChainLoop(ch, ch[1], 2, 0)

\* -------------------------------------------------------- peers' responses
\* A chain extended by a block mined with previous_hash omitted.
Mine(ch, txs, now, proof) == Append(ch, MakeBlock(ch, txs, now, proof, None))

Tx1 == [sender |-> "A", recipient |-> "B", amount |-> 5]
Tx2 == [sender |-> "C", recipient |-> "D", amount |-> 10]

\* Chains peers serve.
PeerGenesis == <<GenesisBlock(7)>>
PeerValid2 == Mine(PeerGenesis, <<Tx1>>, 8, Proof2)
PeerValid3 == Mine(PeerValid2, <<Tx2>>, 9, Proof3)
PeerBadProof3 == Mine(Mine(PeerGenesis, <<Tx1>>, 8, BadProof), << >>, 9, Proof3)
\* A second fully valid chain of three blocks, with other transactions.
PeerValid3Alt == Mine(Mine(PeerGenesis, << >>, 8, Proof2), << >>, 9, Proof3)
\* Three blocks, the first pair valid and the last block's proof not.
PeerBadTail3 == Mine(PeerValid2, << >>, 9, BadProof)
\* One block that is no genesis block.
PeerForeign ==
    << [ index |-> 4, timestamp |-> 7, transactions |-> <<Tx2>>, proof |-> BadProof,
         previous_hash |-> PyStr("") ] >>

\* What requests.get(f'http://{node}/chain') gives: it raises, or returns a
\* response with a status code and a body; the body is no JSON, or a JSON
\* object with the keys 'length' and 'chain'.
Unreachable == [kind |-> "ConnectionError"]
ServerError == [kind |-> "response", status_code |-> 500, body |-> [json |-> FALSE]]
NotJson     == [kind |-> "response", status_code |-> 200, body |-> [json |-> FALSE]]
Serves(length, ch) ==
    [ kind |-> "response", status_code |-> 200,
      body |-> [json |-> TRUE, length |-> length, chain |-> ch] ]

Responses ==
    { Unreachable, ServerError, NotJson,
      Serves(1, PeerGenesis), Serves(5, PeerGenesis),
      Serves(3, PeerValid3), Serves(3, PeerBadProof3),
      Serves(3, PeerValid3Alt), Serves(3, PeerBadTail3), Serves(5, PeerForeign) }

\* ------------------------------------------------------ conflict resolution
\* TruthyResult as `is not False` would test it: None passes.
TruthyResultNotFalse(v) == v # "False"

\* Python truthiness of what valid_chain returned (True, False or None), as
\* the `and` of resolve_conflicts tests it.
TruthyResult(v) == v = "True"

\* new_chain is None or a list: the empty set, or the set of that one list.
NoChain == {}
SomeChain(c) == {c}

\* Python truthiness of new_chain: None and the empty list are falsy.
TruthyChain(new_chain) == \E c \in new_chain : Len(c) > 0

\* How a resolve_conflicts call ends: kind "returned" with val TRUE or FALSE,
\* kind "raised" with the exception's name, or kind "running" (the call is
\* inside a valid_chain that has not returned); `chain` is self.chain then,
\* and `consulted` the nodes whose response was fetched.
ResolveEnd(kind, val, ch, consulted) ==
    [op |-> "resolve_conflicts", kind |-> kind, val |-> val, chain |-> ch,
     consulted |-> consulted]

\* The for loop of resolve_conflicts from position i of the iteration order
\* `order` of self.nodes, fetch[node] being the response of `node`, and what
\* follows the loop.
RECURSIVE ResolveLoop(_, _, _, _, _, _)
ResolveLoop(ch, order, fetch, i, max_length, new_chain) ==
    IF i > Len(order)
    THEN IF TruthyChain(new_chain)
         THEN ResolveEnd("returned", TRUE, CHOOSE c \in new_chain : TRUE, i - 1)
         ELSE ResolveEnd("returned", FALSE, ch, i - 1)
    ELSE LET response == fetch[order[i]]
         IN  IF response.kind = "ConnectionError"
             THEN ResolveEnd("raised", "ConnectionError", ch, i)
             ELSE IF response.status_code # 200
             THEN ResolveLoop(ch, order, fetch, i + 1, max_length, new_chain)
             ELSE IF ~response.body.json
             THEN ResolveEnd("raised", "JSONDecodeError", ch, i)
             ELSE IF ~(response.body.length > max_length)
             THEN ResolveLoop(ch, order, fetch, i + 1, max_length, new_chain)
             ELSE LET v == valid_chain(response.body.chain).result
                  IN  CASE v = "running" -> ResolveEnd("running", None, ch, i)
                        [] v \notin {"True", "False", "None"} ->
                             ResolveEnd("raised", v, ch, i)
                        [] OTHER ->
                             IF TruthyResult(v)
                             THEN ResolveLoop(ch, order, fetch, i + 1,
                                              response.body.length,
                                              SomeChain(response.body.chain))
                             ELSE ResolveLoop(ch, order, fetch, i + 1,
                                              max_length, new_chain)

\* Blockchain.resolve_conflicts
resolve_conflicts(ch, order, fetch) ==
    ResolveLoop(ch, order, fetch, 1, Len(ch), NoChain)

\* The orders a for loop can iterate the set S in.
Orders(S) ==
    { o \in [1..Cardinality(S) -> S] : \A i, j \in DOMAIN o : i # j => o[i] # o[j] }

\* A resolve_conflicts call; with `traced`, ret also keeps the inputs of the
\* call (the iteration order, the responses, self.chain before it).
ResolveConflictsCall(traced) ==
    /\ Idle
    /\ \E order \in Orders(nodes), fetch \in [nodes -> Responses] :
          \E end \in {resolve_conflicts(chain, order, fetch)} :
              /\ chain' = end.chain
              /\ shared' = IF end.kind = "returned" /\ end.val = TRUE
                            THEN {} ELSE shared
              /\ ret' = IF traced
                        THEN [ op |-> end.op, kind |-> end.kind, val |-> end.val,
                               consulted |-> end.consulted,
                               order |-> order, fetch |-> fetch, before |-> chain,
                               pool |-> current_transactions, nodes |-> nodes ]
                        ELSE [ op |-> end.op, kind |-> end.kind, val |-> end.val ]
    /\ UNCHANGED <<current_transactions, nodes, registered, mined, honest,
                   submitted, threads>>

ResolveConflicts == ResolveConflictsCall(FALSE)

ResolveConflictsTraced == ResolveConflictsCall(TRUE)

\* ------------------------------------------- valid_chain as a function
\* ch with field f of the block at position i set to v.
SetField(ch, i, f, v) == [ch EXCEPT ![i] = [@ EXCEPT ![f] = v]]

\* ch with field f of the block at position i removed.
DropField(ch, i, f) ==
    [ch EXCEPT ![i] = [k \in (DOMAIN @) \ {f} |-> @[k]]]

\* Chains built by new_block calls on a constructed Blockchain.
MinedChains ==
    { PeerGenesis, PeerValid2, PeerValid3,
      Mine(PeerGenesis, << >>, 8, BadProof),
      Mine(PeerValid2, <<Tx1>>, 9, BadProof),
      Mine(Mine(PeerGenesis, << >>, 8, Proof2Alt), <<Tx2>>, 9, Proof3) }

\* The values a field of a block is changed to.
FieldValues(f) ==
    CASE f = "transactions" -> { << >>, <<Tx1>>, <<Tx2>> }
      [] f = "proof" -> { Proof2, Proof2Alt, Proof3, BadProof }
      [] f = "previous_hash" -> { PyInt(1), Hash(PeerGenesis[1]) }

MutableFields == {"transactions", "proof", "previous_hash"}

\* ch with one field of one block changed to a different value.
MutationsOf(ch) ==
    UNION { { SetField(ch, i, f, v) : v \in FieldValues(f) \ {ch[i][f]} } :
            i \in 1..Len(ch), f \in MutableFields }

\* ch with one field of one block missing.
Malformations(ch) ==
    { DropField(ch, i, f) : i \in 1..Len(ch), f \in {"previous_hash", "proof"} }

\* The chains valid_chain is called with.
CandidateChains ==
    MinedChains
    \cup UNION { MutationsOf(ch) : ch \in MinedChains }
    \cup UNION { Malformations(ch) : ch \in MinedChains }

\* How a call that ended with `result` ended.
EndKind(result) ==
    CASE result = "running" -> "running"
      [] result \in {"True", "False", "None"} -> "returned"
      [] OTHER -> "raised"

\* A valid_chain call.
ValidChainCall ==
    /\ Idle
    /\ \E ch \in CandidateChains :
          \E end \in {valid_chain(ch)} :
              ret' = [ op |-> "valid_chain", kind |-> EndKind(end.result),
                       val |-> end.result, examined |-> end.examined, arg |-> ch ]
    /\ UNCHANGED <<chain, current_transactions, nodes, registered, mined, honest, shared,
                   submitted,
                   threads>>

\* ------------------------------------------------------------ proof of work
\* proof_of_work(last_proof) up to its loop: proof = 0.
ProofOfWorkCall ==
    /\ Idle
    /\ \E last_proof \in PowInputs :
          ret' = [ op |-> "proof_of_work", kind |-> "running", val |-> None,
                   last_proof |-> last_proof, proof |-> 0 ]
    /\ UNCHANGED <<chain, current_transactions, nodes, registered, mined, honest,
                   shared, submitted, threads>>

\* One test of proof_of_work's while loop: the proof it holds is not valid
\* and the next one is tried, or it is valid and returned.
ProofOfWorkLoop ==
    /\ ret.op = "proof_of_work"
    /\ ret.kind = "running"
    /\ ret.proof <= MaxProof
    /\ ret' = IF valid_proof(ret.last_proof, ret.proof) = FALSE
              THEN [ret EXCEPT !.proof = PowNext(@)]
              ELSE [ret EXCEPT !.kind = "returned", !.val = ret.proof]
    /\ UNCHANGED <<chain, current_transactions, nodes, registered, mined, honest,
                   shared, submitted, threads>>

\* ------------------------------------------------------- concurrent calls
\* Threads calling into one Blockchain with no lock: a step is one read or
\* one write of self.chain or self.current_transactions.  A list is shared by
\* reference: a thread that read self.current_transactions for its block
\* sees what is appended to that list until the attribute is rebound.
\* What a call returns goes to its thread: ret and registered, which record
\* calls made one after the other, and honest are left alone.

\* The inputs of the concurrent calls.
ConcProofs == {Proof2}
ConcAddresses == {[host |-> "n1", path |-> ""]}
ConcResponses == {Unreachable, Serves(5, PeerGenesis), Serves(3, PeerValid3)}

\* The other threads' frames after `tx` is appended to the pending list.
AppendToAliases(frames, tx) ==
    [u \in Threads |->
        IF frames[u].op = "new_block" /\ frames[u].aliased
        THEN [frames[u] EXCEPT !.transactions = Append(@, tx)]
        ELSE frames[u]]

\* The other threads' frames after self.current_transactions is rebound.
Unalias(frames) ==
    [u \in Threads |->
        IF frames[u].op = "new_block"
        THEN [frames[u] EXCEPT !.aliased = FALSE]
        ELSE frames[u]]

\* new_transaction: self.current_transactions.append(transaction)
NtAppend(t) ==
    /\ pc[t] = "idle"
    /\ Len(current_transactions) < MaxPool
    /\ \E tx \in Transactions :
          /\ current_transactions' = Append(current_transactions, tx)
          /\ loc' = [AppendToAliases(loc, tx) EXCEPT
                        ![t] = [op |-> "new_transaction", tx |-> tx]]
    /\ pc' = [pc EXCEPT ![t] = "nt_return"]
    /\ UNCHANGED <<chain, nodes, ret, registered, mined, honest, shared,
                   submitted>>

\* new_transaction: return self.last_block['index'] + 1
NtReturn(t) ==
    /\ pc[t] = "nt_return"
    /\ \E result \in {NewTransactionResult(chain)} :
          /\ pc' = [pc EXCEPT ![t] = "idle"]
          /\ loc' = [loc EXCEPT ![t] = NoLocals]
    /\ UNCHANGED <<chain, current_transactions, nodes, ret, registered, mined, honest, shared,
                   submitted>>

\* new_block: 'index': len(self.chain) + 1 and 'timestamp': time()
NbIndex(t) ==
    /\ pc[t] = "idle"
    /\ mined < MaxBlocks
    /\ \E proof \in ConcProofs, previous_hash \in PreviousHashArgs :
          loc' = [loc EXCEPT ![t] =
                    [ op |-> "new_block", proof |-> proof, arg |-> previous_hash,
                      index |-> Len(chain) + 1, timestamp |-> mined + 1,
                      transactions |-> << >>, aliased |-> FALSE,
                      previous_hash |-> None ]]
    /\ mined' = mined + 1
    /\ pc' = [pc EXCEPT ![t] = "nb_transactions"]
    /\ UNCHANGED <<chain, current_transactions, nodes, ret, registered, honest, shared,
                   submitted>>

\* new_block: 'transactions': self.current_transactions
NbTransactions(t) ==
    /\ pc[t] = "nb_transactions"
    /\ loc' = [loc EXCEPT ![t].transactions = current_transactions,
                          ![t].aliased = TRUE]
    /\ pc' = [pc EXCEPT ![t] = "nb_previous_hash"]
    /\ UNCHANGED <<chain, current_transactions, nodes, ret, registered, mined, honest, shared,
                   submitted>>

\* new_block: 'previous_hash': previous_hash or self.hash(self.chain[-1])
NbPreviousHash(t) ==
    /\ pc[t] = "nb_previous_hash"
    /\ loc' = [loc EXCEPT ![t].previous_hash =
                  IF Truthy(loc[t].arg) THEN loc[t].arg ELSE Hash(last_block(chain))]
    /\ pc' = [pc EXCEPT ![t] = "nb_reset"]
    /\ UNCHANGED <<chain, current_transactions, nodes, ret, registered, mined, honest, shared,
                   submitted>>

\* new_block: self.current_transactions = []
NbReset(t) ==
    /\ pc[t] = "nb_reset"
    /\ current_transactions' = PoolAfterMint(current_transactions).list
    /\ loc' = Unalias(loc)
    /\ pc' = [pc EXCEPT ![t] = "nb_append"]
    /\ UNCHANGED <<chain, nodes, ret, registered, mined, honest, shared,
                   submitted>>

\* new_block: self.chain.append(block) and return block
NbAppend(t) ==
    /\ pc[t] = "nb_append"
    /\ LET block == [ index         |-> loc[t].index,
                      timestamp     |-> loc[t].timestamp,
                      transactions  |-> loc[t].transactions,
                      proof         |-> loc[t].proof,
                      previous_hash |-> loc[t].previous_hash ]
       IN  chain' = Append(chain, block)
    /\ pc' = [pc EXCEPT ![t] = "idle"]
    /\ loc' = [loc EXCEPT ![t] = NoLocals]
    /\ UNCHANGED <<current_transactions, nodes, ret, registered, mined, honest, shared,
                   submitted>>

\* resolve_conflicts: max_length = len(self.chain) and the for loop, which
\* reads no attribute of self again.
RcLoop(t) ==
    /\ pc[t] = "idle"
    /\ \E order \in Orders(nodes), fetch \in [nodes -> ConcResponses] :
          \E end \in {resolve_conflicts(chain, order, fetch)} :
              /\ loc' = [loc EXCEPT ![t] =
                            [ op |-> "resolve_conflicts", kind |-> end.kind,
                              val |-> end.val, chain |-> end.chain ]]
              /\ pc' = [pc EXCEPT ![t] =
                            IF end.kind = "running" THEN "rc_running" ELSE "rc_return"]
    /\ UNCHANGED <<chain, current_transactions, nodes, ret, registered, mined, honest, shared,
                   submitted>>

\* resolve_conflicts: `if new_chain: self.chain = new_chain`, and the return
\* (or the exception that left the loop).
RcReturn(t) ==
    /\ pc[t] = "rc_return"
    /\ chain' = IF loc[t].kind = "returned" /\ loc[t].val = TRUE
                THEN loc[t].chain ELSE chain
    /\ pc' = [pc EXCEPT ![t] = "idle"]
    /\ loc' = [loc EXCEPT ![t] = NoLocals]
    /\ UNCHANGED <<current_transactions, nodes, ret, registered, mined, honest, shared,
                   submitted>>

\* register_node
RnAdd(t) ==
    /\ pc[t] = "idle"
    /\ \E address \in ConcAddresses : nodes' = nodes \cup {Netloc(address)}
    /\ UNCHANGED <<chain, current_transactions, ret, registered, mined, honest, shared,
                   submitted, threads>>

\* ------------------------------------------------------------ specifications
\* Any sequence of calls made one after the other.
Next == NewTransaction \/ NewBlock \/ RegisterNode \/ ResolveConflicts

Spec == Init /\ [][Next]_vars

\* The ledger alone: transactions and blocks.
NextLedger == NewTransaction \/ NewBlock

SpecLedger == Init /\ [][NextLedger]_vars

\* resolve_conflicts calls, each keeping its inputs.
NextResolve == RegisterNode \/ NewBlock \/ ResolveConflictsTraced

SpecResolve == Init /\ [][NextResolve]_vars

\* valid_chain calls.
NextValidate == ValidChainCall

SpecValidate == Init /\ [][NextValidate]_vars

\* proof_of_work calls.
NextPow == ProofOfWorkCall \/ ProofOfWorkLoop

SpecPow == Init /\ [][NextPow]_vars

\* Transactions and blocks, new_block given every kind of previous_hash.
NextMint == NewTransaction \/ NewBlockSupplied

SpecMint == Init /\ [][NextMint]_vars

\* Calls made by concurrent threads.
NextConc ==
    \E t \in Threads :
        \/ NtAppend(t) \/ NtReturn(t)
        \/ NbIndex(t) \/ NbTransactions(t) \/ NbPreviousHash(t)
        \/ NbReset(t) \/ NbAppend(t)
        \/ RcLoop(t) \/ RcReturn(t)
        \/ RnAdd(t)

SpecConc == Init /\ [][NextConc]_vars

\* ------------------------------------------------------------------ claims
\* Every adjacent pair of ch is hash-linked with a valid proof.
FullyValid(ch) ==
    \A i \in 2..Len(ch) :
        /\ {"previous_hash", "proof"} \subseteq DOMAIN ch[i]
        /\ "proof" \in DOMAIN ch[i - 1]
        /\ ch[i].previous_hash = Hash(ch[i - 1])
        /\ valid_proof(ch[i - 1].proof, ch[i].proof)

\* C1: valid_chain returns True on every chain built by construction followed
\* by new_block calls that were each given a valid proof and no
\* previous_hash, the genesis-only chain included.
C1_MinedChainIsValid ==
    honest => valid_chain(chain).result = "True"

\* The response of node n in the resolve_conflicts call ret records.
Fetched(n) == ret.fetch[n]
ServesChain(n) == Fetched(n).kind = "response" /\ Fetched(n).status_code = 200
                  /\ Fetched(n).body.json
\* Node n reports a chain strictly longer than the local one and fully valid.
LongerValid(n) ==
    /\ ServesChain(n)
    /\ Fetched(n).body.length > Len(ret.before)
    /\ Len(Fetched(n).body.chain) > Len(ret.before)
    /\ FullyValid(Fetched(n).body.chain)
\* Node n is unreachable or reports an invalid chain.
UnreachableOrInvalid(n) ==
    \/ Fetched(n).kind = "ConnectionError"
    \/ ServesChain(n) /\ ~FullyValid(Fetched(n).body.chain)

Resolved == ret.op = "resolve_conflicts"

\* C2: a resolve_conflicts call in which exactly one peer reports a strictly
\* longer, fully valid chain and every other peer is unreachable or reports
\* an invalid chain returns True with self.chain that peer's chain.
C2_SoleLongerValidChainAdopted ==
    Resolved =>
        \A n \in nodes :
            (LongerValid(n) /\ \A m \in nodes \ {n} : UnreachableOrInvalid(m))
            => /\ ret.kind = "returned"
               /\ ret.val = TRUE
               /\ chain = Fetched(n).body.chain

\* C3: a resolve_conflicts call never replaces the local chain by a chain
\* with as many blocks as the local chain had when the call began, or fewer,
\* whatever lengths the peers report.
C3_NeverReplacedByNoLonger ==
    Resolved =>
        /\ (ret.kind = "returned" /\ ret.val = TRUE) => Len(chain) > Len(ret.before)
        /\ chain # ret.before => Len(chain) > Len(ret.before)

\* C3's case: a call has returned in which a consulted peer reported a
\* length greater than the local chain's with a chain of no more blocks.
C3_Witness ==
    /\ Resolved
    /\ ret.kind = "returned"
    /\ \E i \in 1..ret.consulted :
          /\ ServesChain(ret.order[i])
          /\ Fetched(ret.order[i]).body.length > Len(ret.before)
          /\ Len(Fetched(ret.order[i]).body.chain) <= Len(ret.before)

\* The transactions new_transaction was given since the last block.
RegisteredTxs(reg) == [i \in 1..Len(reg) |-> reg[i].tx]

\* C5: new_block returns a block whose transactions are exactly those
\* registered since the last block was minted, in registration order, and
\* leaves the pending pool empty.
C5_BlockEmbedsRegistered ==
    ret.op = "new_block" =>
        /\ ret.val.transactions = RegisteredTxs(ret.registered)
        /\ ret.val = last_block(chain)
        /\ current_transactions = << >>

\* C5's case: the second block is minted after (A,B,5) then (C,D,10) were
\* registered.
C5_Witness ==
    /\ ret.op = "new_block"
    /\ mined = 2
    /\ RegisteredTxs(ret.registered) = <<Tx1, Tx2>>

\* C6: the block new_block embeds a registered transaction in has the index
\* new_transaction returned for that transaction.
C6_ReturnedIndexIsBlockIndex ==
    ret.op = "new_block" =>
        \A i \in 1..Len(ret.registered) : ret.registered[i].result = ret.val.index

\* C6's case: transactions were registered, resolve_conflicts was called,
\* and then the second block was minted with them.
C6_Witness ==
    /\ ret.op = "new_block"
    /\ ret.after = "resolve_conflicts"
    /\ mined = 2
    /\ Len(ret.registered) = 2

\* What valid_chain does with the chain node n reports returns.
Validates(n) ==
    ServesChain(n) => valid_chain(Fetched(n).body.chain).result \in {"True", "False", "None"}
\* The fetch of node n's chain fails: unreachable, a non-success status, or a
\* malformed response.
FetchError(n) == ~ServesChain(n)

\* C8: a fetch error for a peer does not abort resolve_conflicts: the call
\* consults every peer and returns a boolean.
C8_FetchErrorSkipsPeer ==
    (Resolved /\ (\E n \in nodes : FetchError(n)) /\ (\A n \in nodes : Validates(n)))
    => /\ ret.kind = "returned"
       /\ ret.val \in BOOLEAN
       /\ ret.consulted = Cardinality(nodes)

\* Every block of ch holds the five fields of a block.
WellFormed(ch) ==
    \A i \in 1..Len(ch) :
        DOMAIN ch[i] = {"index", "timestamp", "transactions", "proof", "previous_hash"}

\* C9: valid_chain on a well-formed chain of length >= 1 terminates, having
\* examined each adjacent pair at most once.
C9_ValidChainTerminates ==
    (ret.op = "valid_chain" /\ WellFormed(ret.arg) /\ Len(ret.arg) >= 1)
    => /\ ret.kind = "returned"
       /\ ret.examined <= Len(ret.arg) - 1

\* C10: valid_chain on a chain with a block missing 'previous_hash' or
\* 'proof' raises nothing and returns false ("returns false" read as widely
\* as a caller's test of the result allows: False, or None).
C10_MalformedBlockIsInvalid ==
    (/\ ret.op = "valid_chain"
     /\ \E i \in 1..Len(ret.arg) : ~({"previous_hash", "proof"} \subseteq DOMAIN ret.arg[i]))
    => /\ ret.kind = "returned"
       /\ ret.val \in {"False", "None"}

\* C7: with new_transaction, new_block and resolve_conflicts running as
\* concurrent threads, every block of every reachable chain has its index
\* equal to its position and, when its previous_hash was defaulted, that
\* previous_hash equal to the hash of the block before it.
C7_ConcurrentChainConsistent ==
    \A i \in 1..Len(chain) :
        /\ chain[i].index = i
        /\ (i > 1 /\ chain[i].previous_hash[1] = "sha256")
           => chain[i].previous_hash = Hash(chain[i - 1])

\* What a resolve_conflicts call that ended with `end` gave its caller:
\* whether it returned, whether it returned True, and self.chain.
Outcome(kind, val, ch) ==
    [ returned |-> kind = "returned",
      replaced |-> (kind = "returned" /\ val = TRUE),
      chain    |-> ch ]

C12_IndexIsPosition ==
    \A i \in 1..Len(chain) : chain[i].index = i

\* C12's case: transactions were registered, two blocks minted and, with
\* nodes registered, resolve_conflicts has returned.
C12_Witness ==
    /\ ret.op = "resolve_conflicts"
    /\ ret.kind = "returned"
    /\ nodes # {}
    /\ Len(chain) = 3
    /\ submitted # << >>

\* C13: self.chain is non-empty and its first block is the genesis block:
\* index 1, proof 100 and the sentinel previous_hash.
C13_StartsWithGenesis ==
    /\ Len(chain) >= 1
    /\ chain[1].index = 1
    /\ chain[1].proof = GenesisProof
    /\ chain[1].previous_hash = GenesisPreviousHash

\* C13's case: resolve_conflicts has returned after a peer reported, with a
\* length greater than the local chain's, a chain that starts with no
\* genesis block.
C13_Witness ==
    /\ Resolved
    /\ ret.kind = "returned"
    /\ \E n \in nodes :
          /\ ServesChain(n)
          /\ Fetched(n).body.length > Len(ret.before)
          /\ Fetched(n).body.chain[1].index # 1

\* C14: right after construction the chain is the genesis block alone, with
\* index 1, proof 100, previous_hash the string "1" and no transactions, and
\* the pending pool and the peer set are empty.
C14_AfterConstruction ==
    ret.op = "__init__" =>
        /\ Len(chain) = 1
        /\ chain[1].index = 1
        /\ chain[1].proof = 100
        /\ chain[1].previous_hash = PyStr("1")
        /\ chain[1].transactions = << >>
        /\ current_transactions = << >>
        /\ nodes = {}

\* C15: proof_of_work(p) returns a proof valid after p, and no smaller
\* non-negative integer is valid after p.
C15_SmallestValidProof ==
    (ret.op = "proof_of_work" /\ ret.kind = "returned") =>
        /\ valid_proof(ret.last_proof, ret.val)
        /\ \A q \in 0..(ret.val - 1) : ~valid_proof(ret.last_proof, q)

\* C15's case: proof_of_work(3317) has returned, 3317 being a previous proof
\* with more than one valid proof among those tried.
C15_Witness ==
    /\ ret.op = "proof_of_work"
    /\ ret.kind = "returned"
    /\ ret.last_proof = 3317
    /\ \E q \in (ret.val + 1)..MaxProof : valid_proof(ret.last_proof, q)

\* C16: a resolve_conflicts call whose peers all serve a chain, none of them
\* both longer than the local chain and fully valid, returns False with
\* self.chain as it was; every call leaves the pending pool and the peer set
\* as they were.
C16_NoLongerValidChainKeepsChain ==
    Resolved =>
        /\ ((\A n \in nodes : ServesChain(n) /\ ~LongerValid(n))
            => /\ ret.kind = "returned"
               /\ ret.val = FALSE
               /\ chain = ret.before)
        /\ current_transactions = ret.pool
        /\ nodes = ret.nodes

\* C17: valid_chain returns False on every chain of two or more blocks one
\* of whose adjacent pairs, at any position, is not hash-linked or has no
\* valid proof.
C17_EveryPairExamined ==
    (/\ ret.op = "valid_chain"
     /\ WellFormed(ret.arg)
     /\ Len(ret.arg) >= 2
     /\ ~FullyValid(ret.arg))
    => /\ ret.kind = "returned"
       /\ ret.val = "False"

\* C18: new_block appends exactly one block, with index len(chain) + 1, the
\* proof it was given, and the previous_hash it was given whenever one was
\* given (0 and the empty string included) and the hash of the last block
\* only when none was.
C18_BlockAsSupplied ==
    ret.op = "new_block" =>
        /\ chain = Append(ret.before, ret.val)
        /\ ret.val.index = Len(ret.before) + 1
        /\ ret.val.proof = ret.proof
        /\ ret.val.previous_hash = IF ret.previous_hash # None
                                   THEN ret.previous_hash
                                   ELSE Hash(last_block(ret.before))

\* C19: no new_transaction or new_block call changes a block already in the
\* chain: the chain before the call is a prefix of the chain after it.
C19_BlocksImmutable ==
    [][\A i \in 1..Len(chain) : Len(chain') >= i /\ chain'[i] = chain[i]]_vars

\* C19's case: a block was minted with (A,B,5) pending, then (C,D,10) was
\* registered and minted, then (A,B,5) was registered again.
C19_Witness ==
    /\ Len(chain) = 3
    /\ chain[2].transactions = <<Tx1>>
    /\ chain[3].transactions = <<Tx2>>
    /\ current_transactions = <<Tx1>>

\* The transactions of the blocks of ch from position i on, in chain order.
RECURSIVE ChainTransactions(_, _)
ChainTransactions(ch, i) ==
    IF i > Len(ch) THEN << >>
    ELSE ch[i].transactions \o ChainTransactions(ch, i + 1)

\* C20: the transactions of the chain's blocks, in chain order, followed by
\* the pending pool are the transactions registered, each once and in
\* registration order.
C20_TransactionsConserved ==
    ChainTransactions(chain, 1) \o current_transactions = submitted

\* C20's case: three transactions were registered around two mintings, one
\* of them still pending.
C20_Witness ==
    /\ mined = 2
    /\ Len(submitted) >= 3
    /\ chain[2].transactions # << >>
    /\ current_transactions # << >>
====
